---- MODULE Spec2Model ----
(***************************************************************************)
(* Model of cleanup/collapse_ci_commits.py: the pure planning functions    *)
(* (partition_ci_runs, build_squash_set, make_squash_plan,                 *)
(* render_todo_lines) and the orchestration in main().                     *)
(*                                                                         *)
(* Text (commit messages, short ids, the rebase todo) is a sequence of     *)
(* one-character strings, so that strip(), the "\n".join of the renderer   *)
(* and the line-wise reading of the todo are modelled by what they do.     *)
(***************************************************************************)
EXTENDS Integers, Sequences, FiniteSets, TLC

VARIABLES
    argv,           \* sys.argv: <<prog, base, author, message>> or shorter
    repoOk,         \* whether repo_path is inside a git repository
    history,        \* repository commits after the base, oldest first
    config,         \* Config dict built by validate_config
    commits,        \* local `commits` of main (plain dicts)
    runs,           \* local `runs` of main
    plan,           \* local `plan` of main
    todo,           \* local `todo` of main (rendered text)
    todoFile,       \* content of the temporary todo file
    todoFileExists, \* whether the temporary file is on disk
    execArg,        \* the todo text the rebase was started with
    execResult,     \* "none" | "ok" | "nonzero" | "exception"
    exitCode,       \* process exit status (-1 while running)
    trace,          \* the calls main has completed, in order
    pc              \* position in main

vars == <<argv, repoOk, history, config, commits, runs, plan, todo, todoFile,
          todoFileExists, execArg, execResult, exitCode, trace, pc>>

(***************************************************************************)
(* Bounds                                                                  *)
(***************************************************************************)
MaxLen == 4

(***************************************************************************)
(* Text helpers                                                            *)
(***************************************************************************)
NL == "\n"

Whitespace == {" ", NL, "\t"}

RECURSIVE LStrip(_)
LStrip(s) ==
    IF s = <<>> THEN s
    ELSE IF Head(s) \in Whitespace THEN LStrip(Tail(s)) ELSE s

RECURSIVE RStrip(_)
RStrip(s) ==
    IF s = <<>> THEN s
    ELSE IF s[Len(s)] \in Whitespace THEN RStrip(SubSeq(s, 1, Len(s) - 1)) ELSE s

\* str.strip()
Strip(s) == RStrip(LStrip(s))

\* sep.join(parts)
RECURSIVE Join(_, _)
Join(parts, sep) ==
    IF parts = <<>> THEN <<>>
    ELSE IF Len(parts) = 1 THEN parts[1]
    ELSE parts[1] \o <<sep>> \o Join(Tail(parts), sep)

\* The lines of a text as a line-oriented reader sees them: split at every
\* newline, a final newline terminates the last line.
RECURSIVE SplitLoop(_, _, _)
SplitLoop(text, done, cur) ==
    IF text = <<>> THEN (IF cur = <<>> THEN done ELSE Append(done, cur))
    ELSE IF Head(text) = NL THEN SplitLoop(Tail(text), Append(done, cur), <<>>)
    ELSE SplitLoop(Tail(text), done, Append(cur, Head(text)))

SplitLines(text) == SplitLoop(text, <<>>, <<>>)

\* The words of one line, split at single spaces.
RECURSIVE WordLoop(_, _, _)
WordLoop(line, done, cur) ==
    IF line = <<>> THEN (IF cur = <<>> THEN done ELSE Append(done, cur))
    ELSE IF Head(line) = " "
         THEN WordLoop(Tail(line), IF cur = <<>> THEN done ELSE Append(done, cur), <<>>)
    ELSE WordLoop(Tail(line), done, Append(cur, Head(line)))

Words(line) == WordLoop(line, <<>>, <<>>)

PickTok == <<"p", "i", "c", "k">>
FixupTok == <<"f", "i", "x", "u", "p">>

(***************************************************************************)
(* The repository: pygit2 commit objects                                   *)
(***************************************************************************)
\* Object ids; pygit2's short_id is an unambiguous abbreviation of the id.
OidPool == << <<"e", "3", "9">>, <<"a", "1", "f">>, <<"c", "7", "0">>,
              <<"b", "2", "d">>, <<"d", "9", "4">>, <<"f", "0", "8">> >>

ShortOf(oid) == SubSeq(oid, 1, 2)

\* (author email, raw message) of the commits a history is drawn from.
RawKinds ==
    { [email |-> "ci",  message |-> <<"c", NL>>],
      [email |-> "dev", message |-> <<"c", NL>>],
      [email |-> "ci",  message |-> <<"h", NL>>],
      [email |-> "dev", message |-> <<"h", NL, "b", NL>>] }

RawCommit(i, k) ==
    [id |-> OidPool[i], short_id |-> ShortOf(OidPool[i]),
     email |-> k.email, message |-> k.message]

Histories ==
    UNION { { [i \in 1..n |-> RawCommit(i, f[i])] : f \in [1..n -> RawKinds] }
            : n \in 0..MaxLen }

KnownRefs == {"main"}

ArgvSet ==
    { <<"prog", "main", "ci", <<"c">> >>,
      <<"prog", "main", "dev", <<"c">> >>,
      <<"prog", "main", "dev", <<"h", NL, "b">> >>,
      <<"prog", "nope", "ci", <<"c">> >>,
      <<"prog", "", "ci", <<"c">> >>,
      <<"prog", "main", "", <<"c">> >>,
      <<"prog", "main", "ci", <<>> >>,
      <<"prog", "main", "ci">> }

(***************************************************************************)
(* Pure functions                                                          *)
(***************************************************************************)
commit_from_pygit2(c) ==
    [oid |-> c.id, short_id |-> c.short_id,
     author_email |-> c.email, message |-> Strip(c.message)]

validate_config(base, author, msg) ==
    [base_commit |-> base, author_email |-> author, message |-> msg,
     repo_path |-> "."]

NoConfig == validate_config("", "", <<>>)

\* is_ci with the message comparison left out
is_ci_author_only(c, target_author, target_message) ==
    c.author_email = target_author

is_ci(c, target_author, target_message) ==
    c.author_email = target_author /\ c.message = target_message

\* the loop without the reset of current_run at a non-matching commit
RECURSIVE PartitionLoop_no_close(_, _, _, _, _)
PartitionLoop_no_close(rest, target_author, target_message, acc, current_run) ==
    IF rest = <<>>
    THEN (IF current_run # <<>> THEN Append(acc, current_run) ELSE acc)
    ELSE IF is_ci(Head(rest), target_author, target_message)
         THEN PartitionLoop_no_close(Tail(rest), target_author, target_message,
                                     acc, Append(current_run, Head(rest)))
         ELSE PartitionLoop_no_close(Tail(rest), target_author, target_message,
                                     acc, current_run)

\* The for loop of partition_ci_runs with its two accumulators.
RECURSIVE PartitionLoop(_, _, _, _, _)
PartitionLoop(rest, target_author, target_message, acc, current_run) ==
    IF rest = <<>>
    THEN (IF current_run # <<>> THEN Append(acc, current_run) ELSE acc)
    ELSE IF is_ci(Head(rest), target_author, target_message)
         THEN PartitionLoop(Tail(rest), target_author, target_message, acc,
                            Append(current_run, Head(rest)))
         ELSE IF current_run # <<>>
              THEN PartitionLoop(Tail(rest), target_author, target_message,
                                 Append(acc, current_run), <<>>)
              ELSE PartitionLoop(Tail(rest), target_author, target_message,
                                 acc, current_run)

partition_ci_runs(cs, target_author, target_message) ==
    IF cs = <<>> THEN <<>>
    ELSE PartitionLoop(cs, target_author, target_message, <<>>, <<>>)

\* run[0:] in place of run[1:]
RECURSIVE build_squash_set_whole_run(_)
build_squash_set_whole_run(rs) ==
    IF rs = <<>> THEN {}
    ELSE (IF Len(Head(rs)) > 1
          THEN { Head(rs)[i].oid : i \in 1..Len(Head(rs)) }
          ELSE {})
         \cup build_squash_set_whole_run(Tail(rs))

\* run[1:-1] in place of run[1:]
RECURSIVE build_squash_set_drop_last(_)
build_squash_set_drop_last(rs) ==
    IF rs = <<>> THEN {}
    ELSE (IF Len(Head(rs)) > 1
          THEN { Head(rs)[i].oid : i \in 2..(Len(Head(rs)) - 1) }
          ELSE {})
         \cup build_squash_set_drop_last(Tail(rs))

RECURSIVE build_squash_set(_)
build_squash_set(rs) ==
    IF rs = <<>> THEN {}
    ELSE (IF Len(Head(rs)) > 1
          THEN { Head(rs)[i].oid : i \in 2..Len(Head(rs)) }
          ELSE {})
         \cup build_squash_set(Tail(rs))

\* total_squash_count taken from the runs instead of the squash set
make_squash_plan_counts_runs(cs, rs) ==
    IF rs = <<>>
    THEN [commits |-> cs, squash_set |-> {}, run_count |-> 0,
          total_squash_count |-> 0]
    ELSE [commits |-> cs, squash_set |-> build_squash_set(rs),
          run_count |-> Len(rs),
          total_squash_count |-> Len(rs)]

make_squash_plan(cs, rs) ==
    IF rs = <<>>
    THEN [commits |-> cs, squash_set |-> {}, run_count |-> 0,
          total_squash_count |-> 0]
    ELSE [commits |-> cs, squash_set |-> build_squash_set(rs),
          run_count |-> Len(rs),
          total_squash_count |-> Cardinality(build_squash_set(rs))]

EmptyPlan == make_squash_plan(<<>>, <<>>)

\* the two actions exchanged
todo_line_swapped(p, c) ==
    (IF c.oid \in p.squash_set THEN PickTok ELSE FixupTok)
        \o <<" ">> \o c.short_id \o <<" ">> \o c.message

\* The list `lines` of render_todo_lines before it is joined.
todo_line(p, c) ==
    (IF c.oid \in p.squash_set THEN FixupTok ELSE PickTok)
        \o <<" ">> \o c.short_id \o <<" ">> \o c.message

render_todo_lines(p) ==
    Join([i \in 1..Len(p.commits) |-> todo_line(p, p.commits[i])], NL) \o <<NL>>

(***************************************************************************)
(* The rewrite engine (git rebase -i reading the todo)                     *)
(***************************************************************************)
Resolve(hist, short) == { i \in 1..Len(hist) : hist[i].short_id = short }

\* One todo line applied to the commits kept so far: keep starts a new
\* surviving commit, fold is absorbed into the nearest preceding keep, a
\* blank line is skipped, anything else is rejected.
RECURSIVE ApplyLines(_, _, _)
ApplyLines(hist, lines, kept) ==
    IF lines = <<>> THEN [ok |-> TRUE, history |-> kept]
    ELSE LET w == Words(Head(lines)) IN
         IF w = <<>> THEN ApplyLines(hist, Tail(lines), kept)
         ELSE IF Len(w) < 2 \/ Resolve(hist, w[2]) = {}
              THEN [ok |-> FALSE, history |-> hist]
         ELSE IF w[1] = PickTok
              THEN ApplyLines(hist, Tail(lines),
                              Append(kept, hist[CHOOSE i \in Resolve(hist, w[2]) : TRUE]))
         ELSE IF w[1] = FixupTok /\ kept # <<>>
              THEN ApplyLines(hist, Tail(lines), kept)
         ELSE [ok |-> FALSE, history |-> hist]

ApplyTodo(hist, text) == ApplyLines(hist, SplitLines(text), <<>>)

(***************************************************************************)
(* main()                                                                  *)
(***************************************************************************)
Init ==
    /\ argv \in ArgvSet
    /\ repoOk \in BOOLEAN
    /\ history \in Histories
    /\ config = NoConfig
    /\ commits = <<>>
    /\ runs = <<>>
    /\ plan = EmptyPlan
    /\ todo = <<>>
    /\ todoFile = <<>>
    /\ todoFileExists = FALSE
    /\ execArg = <<>>
    /\ execResult = "none"
    /\ exitCode = -1
    /\ trace = <<>>
    /\ pc = "args"

Exit(code) ==
    /\ pc' = "exit"
    /\ exitCode' = code

\* len(sys.argv) check and validate_config
ParseArgs ==
    /\ pc = "args"
    /\ trace' = Append(trace, "args")
    /\ IF Len(argv) # 4
       THEN Exit(1) /\ UNCHANGED config
       ELSE IF argv[2] = "" \/ argv[3] = "" \/ argv[4] = <<>>
            THEN Exit(1) /\ UNCHANGED config
            ELSE /\ config' = validate_config(argv[2], argv[3], argv[4])
                 /\ pc' = "load"
                 /\ UNCHANGED exitCode
    /\ UNCHANGED <<argv, repoOk, history, commits, runs, plan, todo, todoFile,
                   todoFileExists, execArg, execResult>>

LoadRepo ==
    /\ pc = "load"
    /\ trace' = Append(trace, "load")
    /\ IF repoOk THEN pc' = "resolve" /\ UNCHANGED exitCode ELSE Exit(1)
    /\ UNCHANGED <<argv, repoOk, history, config, commits, runs, plan, todo,
                   todoFile, todoFileExists, execArg, execResult>>

ResolveBase ==
    /\ pc = "resolve"
    /\ trace' = Append(trace, "resolve")
    /\ IF config.base_commit \in KnownRefs
       THEN pc' = "fetch" /\ UNCHANGED exitCode
       ELSE Exit(1)
    /\ UNCHANGED <<argv, repoOk, history, config, commits, runs, plan, todo,
                   todoFile, todoFileExists, execArg, execResult>>

fetch_commits_since_base(hist) ==
    [i \in 1..Len(hist) |-> commit_from_pygit2(hist[i])]

FetchCommits ==
    /\ pc = "fetch"
    /\ trace' = Append(trace, "fetch")
    /\ commits' = fetch_commits_since_base(history)
    /\ IF commits' = <<>> THEN Exit(0) ELSE pc' = "partition" /\ UNCHANGED exitCode
    /\ UNCHANGED <<argv, repoOk, history, config, runs, plan, todo, todoFile,
                   todoFileExists, execArg, execResult>>

PartitionStep ==
    /\ pc = "partition"
    /\ trace' = Append(trace, "partition")
    /\ runs' = partition_ci_runs(commits, config.author_email, config.message)
    /\ pc' = "plan"
    /\ UNCHANGED <<argv, repoOk, history, config, commits, plan, todo, todoFile,
                   todoFileExists, execArg, execResult, exitCode>>

\* the early return taken on run_count instead of total_squash_count
PlanStep_checks_run_count ==
    /\ pc = "plan"
    /\ trace' = Append(trace, "plan")
    /\ plan' = make_squash_plan(commits, runs)
    /\ IF plan'.run_count = 0
       THEN Exit(0)
       ELSE pc' = "render" /\ UNCHANGED exitCode
    /\ UNCHANGED <<argv, repoOk, history, config, commits, runs, todo, todoFile,
                   todoFileExists, execArg, execResult>>

PlanStep ==
    /\ pc = "plan"
    /\ trace' = Append(trace, "plan")
    /\ plan' = make_squash_plan(commits, runs)
    /\ IF plan'.total_squash_count = 0
       THEN Exit(0)
       ELSE pc' = "render" /\ UNCHANGED exitCode
    /\ UNCHANGED <<argv, repoOk, history, config, commits, runs, todo, todoFile,
                   todoFileExists, execArg, execResult>>

RenderStep ==
    /\ pc = "render"
    /\ trace' = Append(trace, "render")
    /\ todo' = render_todo_lines(plan)
    /\ pc' = "write"
    /\ UNCHANGED <<argv, repoOk, history, config, commits, runs, plan, todoFile,
                   todoFileExists, execArg, execResult, exitCode>>

write_todo_file ==
    /\ pc = "write"
    /\ trace' = Append(trace, "write")
    /\ todoFile' = todo
    /\ todoFileExists' = TRUE
    /\ pc' = "execute"
    /\ UNCHANGED <<argv, repoOk, history, config, commits, runs, plan, todo,
                   execArg, execResult, exitCode>>

\* execute_rebase without the returncode test
execute_rebase_ignores_status ==
    /\ pc = "execute"
    /\ trace' = Append(trace, "execute")
    /\ execArg' = todoFile
    /\ todoFileExists' = FALSE
    /\ \E outcome \in {"ok", "nonzero", "exception"} :
         /\ outcome = "ok" => ApplyTodo(history, todoFile).ok
         /\ execResult' = outcome
         /\ IF outcome = "ok"
            THEN /\ history' = ApplyTodo(history, todoFile).history
                 /\ pc' = "report"
                 /\ UNCHANGED exitCode
            ELSE IF outcome = "nonzero"
                 THEN /\ pc' = "report"
                      /\ UNCHANGED <<exitCode, history>>
                 ELSE /\ Exit(1)
                      /\ UNCHANGED history
    /\ UNCHANGED <<argv, repoOk, config, commits, runs, plan, todo, todoFile>>

\* subprocess.run of the rebase with the sequence editor copying the todo
\* file, the returncode test, the except and the finally of execute_rebase.
execute_rebase ==
    /\ pc = "execute"
    /\ trace' = Append(trace, "execute")
    /\ execArg' = todoFile
    /\ todoFileExists' = FALSE
    /\ \E outcome \in {"ok", "nonzero", "exception"} :
         /\ outcome = "ok" => ApplyTodo(history, todoFile).ok
         /\ execResult' = outcome
         /\ IF outcome = "ok"
            THEN /\ history' = ApplyTodo(history, todoFile).history
                 /\ pc' = "report"
                 /\ UNCHANGED exitCode
            ELSE /\ Exit(1)
                 /\ UNCHANGED history
    /\ UNCHANGED <<argv, repoOk, config, commits, runs, plan, todo, todoFile>>

\* the final log.info of main and the return
ReportComplete ==
    /\ pc = "report"
    /\ trace' = Append(trace, "complete")
    /\ Exit(0)
    /\ UNCHANGED <<argv, repoOk, history, config, commits, runs, plan, todo,
                   todoFile, todoFileExists, execArg, execResult>>

Next ==
    \/ ParseArgs
    \/ LoadRepo
    \/ ResolveBase
    \/ FetchCommits
    \/ PartitionStep
    \/ PlanStep
    \/ RenderStep
    \/ write_todo_file
    \/ execute_rebase
    \/ ReportComplete

Spec == Init /\ [][Next]_vars

(***************************************************************************)
(* The planner called directly, with runs that need not come from the      *)
(* partitioner                                                             *)
(***************************************************************************)
MaxPlannerCommits == 2
MaxRunLen == 2
MaxRuns == 2

PlannerPool ==
    { commit_from_pygit2(RawCommit(i, [email |-> "ci", message |-> <<"c", NL>>]))
      : i \in 1..(MaxPlannerCommits + 1) }

SeqsUpTo(S, lo, hi) == UNION { [1..n -> S] : n \in lo..hi }

InitPlanner ==
    /\ argv = <<"prog", "main", "ci", <<"c">> >>
    /\ repoOk = TRUE
    /\ history \in { h \in Histories : Len(h) <= MaxPlannerCommits }
    /\ config = validate_config("main", "ci", <<"c">>)
    /\ commits = fetch_commits_since_base(history)
    /\ runs \in SeqsUpTo(SeqsUpTo(PlannerPool, 1, MaxRunLen), 0, MaxRuns)
    /\ plan = EmptyPlan
    /\ todo = <<>>
    /\ todoFile = <<>>
    /\ todoFileExists = FALSE
    /\ execArg = <<>>
    /\ execResult = "none"
    /\ exitCode = -1
    /\ trace = <<>>
    /\ pc = "call"

\* one call of make_squash_plan(commits, runs); the function has no path
\* that raises or exits, it always returns a plan
CallPlanner ==
    /\ pc = "call"
    /\ trace' = Append(trace, "plan")
    /\ plan' = make_squash_plan(commits, runs)
    /\ pc' = "returned"
    /\ UNCHANGED <<argv, repoOk, history, config, commits, runs, todo, todoFile,
                   todoFileExists, execArg, execResult, exitCode>>

NextPlanner == CallPlanner

SpecPlanner == InitPlanner /\ [][NextPlanner]_vars

(***************************************************************************)
(* Vocabulary of the properties                                            *)
(***************************************************************************)
HasDone(step) == \E i \in 1..Len(trace) : trace[i] = step

CountDone(step) == Cardinality({ i \in 1..Len(trace) : trace[i] = step })

IndexOf(step) == CHOOSE i \in 1..Len(trace) : trace[i] = step

\* A commit carries the target signature of the configuration.
Matching(c) == <<c.author_email, c.message>> = <<config.author_email, config.message>>

RECURSIVE Flatten(_)
Flatten(rs) == IF rs = <<>> THEN <<>> ELSE Head(rs) \o Flatten(Tail(rs))

RECURSIVE SumFolds(_)
SumFolds(rs) ==
    IF rs = <<>> THEN 0
    ELSE (IF Len(Head(rs)) - 1 > 0 THEN Len(Head(rs)) - 1 ELSE 0) + SumFolds(Tail(rs))

DistinctIds(cs) == \A i, j \in 1..Len(cs) : cs[i].oid = cs[j].oid => i = j

\* run r occupies positions s .. s + Len(r) - 1 of cs
OccupiesAt(cs, r, s) ==
    /\ s >= 1
    /\ s + Len(r) - 1 <= Len(cs)
    /\ \A j \in 1..Len(r) : cs[s + j - 1] = r[j]

(***************************************************************************)
(* C1: after partition and plan of a commit sequence with distinct ids, a  *)
(* commit id is in the fold set exactly when the commit is a member, other *)
(* than the first, of a run of length > 1; the first member of every run   *)
(* (so the only member of a run of length 1) is never in the fold set.     *)
(***************************************************************************)
C1_FoldSetExact ==
    (HasDone("plan") /\ HasDone("partition") /\ DistinctIds(commits)) =>
        /\ \A i \in 1..Len(commits) :
              commits[i].oid \in plan.squash_set <=>
                  \E k \in 1..Len(runs) :
                      /\ Len(runs[k]) > 1
                      /\ \E j \in 2..Len(runs[k]) : runs[k][j] = commits[i]
        /\ \A k \in 1..Len(runs) : runs[k][1].oid \notin plan.squash_set
        /\ plan.squash_set \subseteq { commits[i].oid : i \in 1..Len(commits) }

C1_Witness ==
    /\ HasDone("plan") /\ HasDone("partition")
    /\ \E k \in 1..Len(runs) : Len(runs[k]) > 1
    /\ \E k \in 1..Len(runs) : Len(runs[k]) = 1
    /\ plan.squash_set # {}

(***************************************************************************)
(* C2: the rendered todo has exactly one line per commit of the plan, in   *)
(* the plan's order, and line i is "<action> <short_id> ..." for commit i, *)
(* the action being fixup when the commit's id is in the fold set and pick *)
(* otherwise.                                                              *)
(***************************************************************************)
C2_OneLinePerCommit ==
    HasDone("render") =>
        LET lines == SplitLines(todo) IN
        /\ Len(lines) = Len(plan.commits)
        /\ \A i \in 1..Len(plan.commits) :
              /\ i <= Len(lines)
              /\ Len(Words(lines[i])) >= 2
              /\ Words(lines[i])[2] = plan.commits[i].short_id
              /\ Words(lines[i])[1] =
                    (IF plan.commits[i].oid \in plan.squash_set
                     THEN FixupTok ELSE PickTok)

(***************************************************************************)
(* C3: in the rendered todo every fixup entry has a pick entry before it   *)
(* (the first entry is a pick), and the nearest pick before a fixup names  *)
(* the first member of the run the folded commit belongs to.               *)
(***************************************************************************)
IsEntry(line, tok) == Words(line) # <<>> /\ Words(line)[1] = tok

C4_PartitionPreservesOrder ==
    HasDone("partition") =>
        /\ Flatten(runs) = SelectSeq(commits, Matching)
        /\ \A i \in 1..Len(commits) :
              Cardinality({ <<k, j>> \in (1..Len(runs)) \X (1..Len(commits)) :
                              j <= Len(runs[k]) /\ runs[k][j] = commits[i] })
                  = (IF Matching(commits[i]) THEN 1 ELSE 0)

C4_Witness ==
    /\ HasDone("partition")
    /\ Len(runs) >= 2
    /\ \E i \in 1..Len(commits) : ~Matching(commits[i])
    /\ \E k \in 1..Len(runs) : Len(runs[k]) > 1

(***************************************************************************)
(* C5: every run is non-empty, contiguous in the commit sequence and       *)
(* maximal: the commits next to its two ends, where they exist, do not     *)
(* match; two matching commits with a non-matching commit between them are *)
(* in different runs and two adjacent matching commits are in the same run.*)
(***************************************************************************)
InRun(r, c) == \E j \in 1..Len(r) : r[j] = c

C5_RunsMaximal ==
    HasDone("partition") =>
        /\ \A k \in 1..Len(runs) :
              /\ Len(runs[k]) >= 1
              /\ \E s \in 1..Len(commits) :
                    /\ OccupiesAt(commits, runs[k], s)
                    /\ s > 1 => ~Matching(commits[s - 1])
                    /\ s + Len(runs[k]) <= Len(commits)
                          => ~Matching(commits[s + Len(runs[k])])
        /\ \A i \in 1..(Len(commits) - 1) :
              (Matching(commits[i]) /\ Matching(commits[i + 1])) =>
                  \E k \in 1..Len(runs) :
                      InRun(runs[k], commits[i]) /\ InRun(runs[k], commits[i + 1])
        /\ \A i, m, j \in 1..Len(commits) :
              (i < m /\ m < j /\ Matching(commits[i]) /\ Matching(commits[j])
                 /\ ~Matching(commits[m])) =>
                  ~\E k \in 1..Len(runs) :
                      InRun(runs[k], commits[i]) /\ InRun(runs[k], commits[j])

C5_Witness ==
    /\ HasDone("partition")
    /\ Len(runs) = 2
    /\ Len(runs[1]) = 2
    /\ Len(commits) = 4

(***************************************************************************)
(* C6: the plan's total_squash_count is the sum over the runs of           *)
(* max(0, length - 1), which is the number of matching commits minus the   *)
(* number of runs, and it is the size of the fold set.                     *)
(***************************************************************************)
C6_FoldCount ==
    (HasDone("plan") /\ HasDone("partition")) =>
        /\ plan.total_squash_count = SumFolds(runs)
        /\ plan.total_squash_count = Len(SelectSeq(commits, Matching)) - Len(runs)
        /\ plan.total_squash_count = Cardinality(plan.squash_set)
        /\ plan.run_count = Len(runs)

C6_Witness ==
    /\ HasDone("plan") /\ HasDone("partition")
    /\ plan.run_count = 2
    /\ plan.total_squash_count = 1
    /\ \E k \in 1..Len(runs) : Len(runs[k]) = 1

(***************************************************************************)
(* C7: the rebase is never started when the fold count of the fetched      *)
(* commits is 0, and main then returns normally; when the fold count is    *)
(* positive the rebase is started exactly once, after partition, plan and  *)
(* render, on the rendered todo.                                           *)
(***************************************************************************)
FoldCountOfFetched ==
    make_squash_plan(commits,
        partition_ci_runs(commits, config.author_email, config.message)
    ).total_squash_count

C7_ExecutorOnlyWhenFolds ==
    /\ CountDone("execute") <= 1
    /\ (HasDone("fetch") /\ FoldCountOfFetched = 0) =>
          /\ ~HasDone("execute")
          /\ execResult = "none"
          /\ pc = "exit" => exitCode = 0
    /\ (HasDone("fetch") /\ FoldCountOfFetched > 0 /\ pc = "exit") =>
          CountDone("execute") = 1
    /\ HasDone("execute") =>
          /\ HasDone("partition") /\ HasDone("plan") /\ HasDone("render")
          /\ IndexOf("partition") < IndexOf("plan")
          /\ IndexOf("plan") < IndexOf("render")
          /\ IndexOf("render") < IndexOf("execute")
          /\ plan.total_squash_count > 0
          /\ execArg = render_todo_lines(plan)

C7_Witness ==
    /\ pc = "exit"
    /\ CountDone("execute") = 1
    /\ FoldCountOfFetched > 0
    /\ execArg # <<>>

(***************************************************************************)
(* C9: the completion report is made only after the rebase returned        *)
(* success; when the rebase returns a non-zero status or raises, main      *)
(* exits with status 1 and the completion report is never made.            *)
(***************************************************************************)
C9_OutcomeFollowsExecutor ==
    /\ HasDone("complete") =>
          /\ HasDone("execute")
          /\ IndexOf("execute") < IndexOf("complete")
          /\ execResult = "ok"
    /\ execResult \in {"nonzero", "exception"} =>
          /\ pc = "exit"
          /\ exitCode = 1
          /\ ~HasDone("complete")
    /\ (execResult = "ok" /\ pc = "exit") => (exitCode = 0 /\ HasDone("complete"))

C9_Witness ==
    /\ execResult = "nonzero"
    /\ pc = "exit"
    /\ exitCode = 1

RunsReferenceAbsent(cs, rs) ==
    \E k \in 1..Len(rs) : \E j \in 1..Len(rs[k]) :
        ~\E i \in 1..Len(cs) : cs[i] = rs[k][j]

C8_PlannerAbortsOnAbsentCommit ==
    (HasDone("plan") /\ RunsReferenceAbsent(commits, runs)) =>
        /\ pc = "aborted"
        /\ plan = EmptyPlan
        /\ \A k \in 1..Len(runs) : \A j \in 1..Len(runs[k]) :
              runs[k][j].oid \in plan.squash_set =>
                  \E i \in 1..Len(commits) : commits[i] = runs[k][j]
====
